---- MODULE Spec2Model ----
(***************************************************************************)
(* Model of mapa's orchestration layer:                                    *)
(*   mapa/__init__.py  convert_array_to_stl, _get_desired_size,            *)
(*                     convert_bbox_to_tif                                 *)
(*   mapa/stac.py      fetch_stac_items_for_bbox, save_images_from_xarr,   *)
(*                     save_tifs_with_one_band                             *)
(* One behaviour is one call of one of the three entry points; prog says   *)
(* which one and pc is the position inside it.                             *)
(*                                                                         *)
(* Elevation samples are abstracted to 0 (empty / no-data) and 1 (data).   *)
(* Floating-point values are modelled as exact rationals.                  *)
(***************************************************************************)
EXTENDS Integers, Sequences, FiniteSets

VARIABLES
    prog,                \* the entry point this behaviour runs
    pc,                  \* position inside the entry point
    input_array,         \* the array argument as passed by the caller
    array,               \* the local name `array` (rebound by the stages)
    shape,               \* <<x, y>> of line 42, captured before trimming
    max_res,             \* argument max_res
    MAXIMUM_RESOLUTION,  \* conf.MAXIMUM_RESOLUTION
    bin_fac,             \* local bin_fac, -1 while unbound
    warned,              \* number of log.warning calls (lines 49-52)
    triangles,           \* local triangles, NoMesh while unbound
    output_file,         \* argument output_file, rebound at line 62
    calls,               \* the stage calls made so far, in order
    size_args,           \* arguments x, y, ensure_squared of _get_desired_size
    bbox_geometry,       \* argument bbox_geometry ("None" or a GeoJSON)
    split_area_in_tiles, \* argument split_area_in_tiles, a string
    compress,            \* argument compress
    tiles,               \* local tiles, <<x, y>>, <<0, 0>> while unbound
    progress_bar,        \* the ProgressBar wrapper, or NoProgressBar
    items,               \* len(items) of the STAC search, -1 before the search
    xx,                  \* the dataset bound by stac_load, or Unbound
    files,               \* the list of paths built by save_tifs_with_one_band
    disk,                \* the set of paths written to disk
    archive,             \* the archives created by create_zip_archive
    err,                 \* the exception that ended the call, "" if none
    ret                  \* the value returned, NoReturn before the return

vars == <<prog, pc, input_array, array, shape, max_res, MAXIMUM_RESOLUTION,
          bin_fac, warned, triangles, output_file, calls, size_args,
          bbox_geometry,
          split_area_in_tiles, compress, tiles, progress_bar, items, xx,
          files, disk, archive, err, ret>>

stlVars == <<input_array, array, shape, max_res, MAXIMUM_RESOLUTION, bin_fac,
             warned, triangles, calls>>
sizeVars == <<size_args>>
tifVars == <<bbox_geometry, split_area_in_tiles, compress, tiles,
             progress_bar, items, xx, files, disk, archive>>

----------------------------------------------------------------------------
(* Bounds *)

MaxCells == 9        \* an elevation grid has at most this many cells
MaxResolution == 2   \* conf.MAXIMUM_RESOLUTION ranges over 1..MaxResolution
MaxSide == 3         \* rows and columns of the array of _get_desired_size
MaxModelSize == 3    \* numerators of the model sizes x and y
MaxFormatLen == 3    \* length of the split_area_in_tiles string
MaxItems == 2        \* number of STAC items a search returns

(* conf.PERFORMANCE_WARNING_THRESHOLD, scaled down to the grids above *)
PERFORMANCE_WARNING_THRESHOLD == 4

----------------------------------------------------------------------------
(* Values *)

NoReturn == [kind |-> "none"]
NoProgressBar == [present |-> FALSE, steps |-> 0, current |-> 0]
Unbound == [bound |-> FALSE, slices |-> 0]
NoMesh == [mesh_of |-> <<>>]
OutputArg == [name |-> "output", suffix |-> ""]

Rows(a) == Len(a)
Cols(a) == Len(a[1])

Grids ==
    UNION { [1..r -> [1..c -> {0, 1}]] :
            <<r, c>> \in { d \in (1..MaxCells) \X (1..MaxCells) :
                           d[1] * d[2] <= MaxCells } }

BlankGrids ==
    { [i \in 1..r |-> [j \in 1..c |-> 0]] : r \in 1..MaxSide, c \in 1..MaxSide }

Min(S) == CHOOSE m \in S : \A k \in S : m <= k
Max(S) == CHOOSE m \in S : \A k \in S : m >= k

RECURSIVE Gcd(_, _)
Gcd(a, b) == IF b = 0 THEN a ELSE Gcd(b, a % b)

(* A positive rational, kept in lowest terms. *)
Rat(n, d) == [n |-> n \div Gcd(n, d), d |-> d \div Gcd(n, d)]
RatDiv(q, k) == Rat(q.n, q.d * k)
RatMul(q, k) == Rat(q.n * k, q.d)

(* Python 3 round() of the non-negative rational p / q: to the nearest     *)
(* integer, a tie going to the even neighbour.                             *)
round(p, q) ==
    LET f == p \div q
        r == 2 * (p % q)
    IN  IF r < q THEN f
        ELSE IF r > q THEN f + 1
        ELSE IF f % 2 = 0 THEN f ELSE f + 1

----------------------------------------------------------------------------
(* Collaborators of convert_array_to_stl *)

(* mapa.raster.remove_empty_first_and_last_rows_and_cols: drop the leading *)
(* and trailing rows and columns that hold no data; a grid with no data at *)
(* all is returned unchanged.                                              *)
remove_empty_first_and_last_rows_and_cols(a) ==
    LET dataRows == { i \in 1..Rows(a) : \E j \in 1..Cols(a) : a[i][j] # 0 }
        dataCols == { j \in 1..Cols(a) : \E i \in 1..Rows(a) : a[i][j] # 0 }
    IN  IF dataRows = {} THEN a
        ELSE LET r0 == Min(dataRows)
                 r1 == Max(dataRows)
                 c0 == Min(dataCols)
                 c1 == Max(dataCols)
             IN  [i \in 1..(r1 - r0 + 1) |->
                    [j \in 1..(c1 - c0 + 1) |-> a[i + r0 - 1][j + c0 - 1]]]

CeilDiv(n, k) == (n + k - 1) \div k

(* mapa.algorithm.reduce_resolution: bin the grid by bin_factor x          *)
(* bin_factor blocks; a block with data reduces to data, a block of        *)
(* no-data stays no-data, a partial block is reduced over its cells only.  *)
reduce_resolution(a, bin_factor) ==
    IF bin_factor <= 1 THEN a
    ELSE [i \in 1..CeilDiv(Rows(a), bin_factor) |->
            [j \in 1..CeilDiv(Cols(a), bin_factor) |->
                IF \E u \in 1..Rows(a), v \in 1..Cols(a) :
                      /\ CeilDiv(u, bin_factor) = i
                      /\ CeilDiv(v, bin_factor) = j
                      /\ a[u][v] # 0
                THEN 1 ELSE 0]]

(* mapa.algorithm.compute_all_triangles: the mesh of a grid. *)
compute_all_triangles(a) == [mesh_of |-> a]

(* mapa.stl_file.save_to_stl_file: writes the mesh and returns the path   *)
(* of the file written, the given path with the suffix added.              *)
save_to_stl_file(path) == [path EXCEPT !.suffix = ".stl"]

Call(fn, input, bin_factor, output) ==
    [fn |-> fn, input |-> input, bin_factor |-> bin_factor, output |-> output]

----------------------------------------------------------------------------
(* Initial states: the arguments of one call *)

StlIdle ==
    /\ input_array = <<<<0>>>>
    /\ array = <<<<0>>>>
    /\ shape = <<0, 0>>
    /\ max_res = FALSE
    /\ MAXIMUM_RESOLUTION = 1
    /\ bin_fac = -1
    /\ warned = 0
    /\ triangles = NoMesh
    /\ calls = <<>>

SizeIdle == size_args = [x |-> Rat(1, 1), y |-> Rat(1, 1), ensure_squared |-> FALSE]

TifIdle ==
    /\ bbox_geometry = "None"
    /\ split_area_in_tiles = <<>>
    /\ compress = FALSE
    /\ tiles = <<0, 0>>
    /\ progress_bar = NoProgressBar
    /\ items = -1
    /\ xx = Unbound
    /\ files = <<>>
    /\ disk = {}
    /\ archive = <<>>

InitStl ==
    /\ prog = "convert_array_to_stl"
    /\ pc = "start"
    /\ input_array \in Grids
    /\ array = input_array
    /\ shape = <<0, 0>>
    /\ max_res \in BOOLEAN
    /\ MAXIMUM_RESOLUTION \in 1..MaxResolution
    /\ bin_fac = -1
    /\ warned = 0
    /\ triangles = NoMesh
    /\ output_file = OutputArg
    /\ calls = <<>>
    /\ SizeIdle
    /\ TifIdle
    /\ err = ""
    /\ ret = NoReturn

----------------------------------------------------------------------------
(* convert_array_to_stl, src/mapa/__init__.py lines 32-64 *)

(* lines 42-45: x, y = array.shape; trim the borders when x > 1 and y > 1 *)
TrimBorders ==
    /\ prog = "convert_array_to_stl"
    /\ pc = "start"
    /\ shape' = <<Rows(array), Cols(array)>>
    /\ IF Rows(array) > 1 /\ Cols(array) > 1
       THEN /\ array' = remove_empty_first_and_last_rows_and_cols(array)
            /\ calls' = Append(calls, Call("trim", array, 0, array'))
       ELSE UNCHANGED <<array, calls>>
    /\ pc' = "branch"
    /\ UNCHANGED <<prog, input_array, max_res, MAXIMUM_RESOLUTION, bin_fac,
                   warned, triangles, output_file, sizeVars, tifVars, err,
                   ret>>

(* PerformanceWarning with the warning turned into an error *)
PerformanceWarning_Raises ==
    /\ prog = "convert_array_to_stl"
    /\ pc = "branch"
    /\ max_res
    /\ IF shape[1] * shape[2] > PERFORMANCE_WARNING_THRESHOLD
       THEN /\ err' = "ValueError"
            /\ pc' = "raised"
       ELSE /\ err' = err
            /\ pc' = "triangulate"
    /\ UNCHANGED <<prog, input_array, array, shape, max_res,
                   MAXIMUM_RESOLUTION, bin_fac, warned, triangles,
                   output_file, calls, sizeVars, tifVars, ret>>

(* lines 47-52: with max_res, warn when x * y exceeds the threshold *)
PerformanceWarning ==
    /\ prog = "convert_array_to_stl"
    /\ pc = "branch"
    /\ max_res
    /\ warned' = IF shape[1] * shape[2] > PERFORMANCE_WARNING_THRESHOLD
                 THEN warned + 1 ELSE warned
    /\ pc' = "triangulate"
    /\ UNCHANGED <<prog, input_array, array, shape, max_res,
                   MAXIMUM_RESOLUTION, bin_fac, triangles, output_file, calls,
                   sizeVars, tifVars, err, ret>>

(* ComputeBinFactor reducing from a bin factor of 1 on *)
ComputeBinFactor_FromOne ==
    /\ prog = "convert_array_to_stl"
    /\ pc = "branch"
    /\ ~max_res
    /\ bin_fac' = round(shape[1] + shape[2], 2 * MAXIMUM_RESOLUTION)
    /\ pc' = IF bin_fac' >= 1 THEN "reduce" ELSE "triangulate"
    /\ UNCHANGED <<prog, input_array, array, shape, max_res,
                   MAXIMUM_RESOLUTION, warned, triangles, output_file, calls,
                   sizeVars, tifVars, err, ret>>

(* lines 53-55: bin_fac = round((x / MAXRES + y / MAXRES) / 2); reduce     *)
(* only if bin_fac > 1                                                     *)
ComputeBinFactor ==
    /\ prog = "convert_array_to_stl"
    /\ pc = "branch"
    /\ ~max_res
    /\ bin_fac' = round(shape[1] + shape[2], 2 * MAXIMUM_RESOLUTION)
    /\ pc' = IF bin_fac' > 1 THEN "reduce" ELSE "triangulate"
    /\ UNCHANGED <<prog, input_array, array, shape, max_res,
                   MAXIMUM_RESOLUTION, warned, triangles, output_file, calls,
                   sizeVars, tifVars, err, ret>>

(* lines 56-57: array = reduce_resolution(array, bin_factor=bin_fac) *)
ReduceResolution ==
    /\ prog = "convert_array_to_stl"
    /\ pc = "reduce"
    /\ array' = reduce_resolution(array, bin_fac)
    /\ calls' = Append(calls, Call("reduce", array, bin_fac, array'))
    /\ pc' = "triangulate"
    /\ UNCHANGED <<prog, input_array, shape, max_res, MAXIMUM_RESOLUTION,
                   bin_fac, warned, triangles, output_file, sizeVars, tifVars,
                   err, ret>>

(* ComputeTriangles triangulating the array as passed by the caller *)
ComputeTriangles_InputArray ==
    /\ prog = "convert_array_to_stl"
    /\ pc = "triangulate"
    /\ triangles' = compute_all_triangles(input_array)
    /\ calls' = Append(calls, Call("triangulate", input_array, 0, triangles'))
    /\ pc' = "serialize"
    /\ UNCHANGED <<prog, input_array, array, shape, max_res,
                   MAXIMUM_RESOLUTION, bin_fac, warned, output_file, sizeVars,
                   tifVars, err, ret>>

(* line 59: triangles = compute_all_triangles(array, ...) *)
ComputeTriangles ==
    /\ prog = "convert_array_to_stl"
    /\ pc = "triangulate"
    /\ triangles' = compute_all_triangles(array)
    /\ calls' = Append(calls, Call("triangulate", array, 0, triangles'))
    /\ pc' = "serialize"
    /\ UNCHANGED <<prog, input_array, array, shape, max_res,
                   MAXIMUM_RESOLUTION, bin_fac, warned, output_file, sizeVars,
                   tifVars, err, ret>>

(* line 62: output_file = save_to_stl_file(triangles, output_file, as_ascii) *)
SaveToStlFile ==
    /\ prog = "convert_array_to_stl"
    /\ pc = "serialize"
    /\ output_file' = save_to_stl_file(output_file)
    /\ disk' = disk \cup {[path |-> output_file', content |-> triangles]}
    /\ calls' = Append(calls, Call("serialize", triangles, 0, output_file'))
    /\ pc' = "return"
    /\ UNCHANGED <<prog, input_array, array, shape, max_res,
                   MAXIMUM_RESOLUTION, bin_fac, warned, triangles, sizeVars,
                   bbox_geometry, split_area_in_tiles, compress, tiles,
                   progress_bar, items, xx, files, archive, err, ret>>

(* line 64: return Path(output_file) *)
ReturnStlPath ==
    /\ prog = "convert_array_to_stl"
    /\ pc = "return"
    /\ ret' = [kind |-> "Path", value |-> output_file]
    /\ pc' = "returned"
    /\ UNCHANGED <<prog, stlVars, output_file, sizeVars, tifVars, err>>

----------------------------------------------------------------------------
(* _get_desired_size, src/mapa/__init__.py lines 67-72 *)

ModelSize(x, y) == [x |-> x, y |-> y]

(* get_desired_size with rows and cols swapped *)
get_desired_size_Swapped(a, x, y, ensure_squared) ==
    IF ensure_squared
    THEN [x |-> x, y |-> y]
    ELSE [x |-> x, y |-> RatMul(RatDiv(y, Cols(a)), Rows(a))]

get_desired_size(a, x, y, ensure_squared) ==
    IF ensure_squared
    THEN ModelSize(x, y)
    ELSE LET rows == Rows(a)
             cols == Cols(a)
         IN  ModelSize(x, RatMul(RatDiv(y, rows), cols))

ModelSizes == { Rat(n, d) : n \in 1..MaxModelSize, d \in 1..2 }

InitSize ==
    /\ prog = "_get_desired_size"
    /\ pc = "start"
    /\ input_array \in BlankGrids
    /\ array = input_array
    /\ shape = <<0, 0>>
    /\ max_res = FALSE
    /\ MAXIMUM_RESOLUTION = 1
    /\ bin_fac = -1
    /\ warned = 0
    /\ triangles = NoMesh
    /\ output_file = OutputArg
    /\ calls = <<>>
    /\ size_args \in [x : ModelSizes, y : ModelSizes, ensure_squared : BOOLEAN]
    /\ TifIdle
    /\ err = ""
    /\ ret = NoReturn

GetDesiredSize ==
    /\ prog = "_get_desired_size"
    /\ pc = "start"
    /\ ret' = [kind |-> "ModelSize",
               value |-> get_desired_size(array, size_args.x, size_args.y,
                                          size_args.ensure_squared)]
    /\ pc' = "returned"
    /\ UNCHANGED <<prog, stlVars, output_file, sizeVars, tifVars, err>>

----------------------------------------------------------------------------
(* Collaborators of convert_bbox_to_tif *)

Alphabet == {"0", "1", "2", "x", "a"}
Digits == {"0", "1", "2"}
Strings == UNION { [1..k -> Alphabet] : k \in 0..MaxFormatLen }

DigitValue(c) == IF c = "0" THEN 0 ELSE IF c = "1" THEN 1 ELSE 2

RECURSIVE ToInt(_)
ToInt(s) ==
    IF s = <<>> THEN 0
    ELSE 10 * ToInt(SubSeq(s, 1, Len(s) - 1)) + DigitValue(s[Len(s)])

IsNumber(s) == Len(s) >= 1 /\ \A i \in 1..Len(s) : s[i] \in Digits

(* mapa.tiling.get_x_y_from_tiles_format: accepts exactly "<int>x<int>"    *)
(* with both integers >= 1 and fails on every other string.                *)
TilesFormatValid(s) ==
    \E i \in 1..Len(s) :
        /\ s[i] = "x"
        /\ IsNumber(SubSeq(s, 1, i - 1))
        /\ IsNumber(SubSeq(s, i + 1, Len(s)))
        /\ ToInt(SubSeq(s, 1, i - 1)) >= 1
        /\ ToInt(SubSeq(s, i + 1, Len(s))) >= 1

get_x_y_from_tiles_format(s) ==
    LET i == CHOOSE k \in 1..Len(s) : s[k] = "x"
    IN  <<ToInt(SubSeq(s, 1, i - 1)), ToInt(SubSeq(s, i + 1, Len(s)))>>

(* mapa.utils.ProgressBar: a step total and a step counter. *)
ProgressBar(steps) == [present |-> TRUE, steps |-> steps, current |-> 0]
Step(pb) == IF pb.present THEN [pb EXCEPT !.current = @ + 1] ELSE pb

(* The file name of one time slice, lines 79-83. *)
TifPath(t) == [name |-> t, suffix |-> ".tif"]

(* line 46: count = len([bands]) *)
count == Len(<<"bands">>)

(* mapa.zip.create_zip_archive: bundles the files into output_file and    *)
(* returns its path.                                                       *)
create_zip_archive(fs, path) == [name |-> path, files |-> fs]

InitTif ==
    /\ prog = "convert_bbox_to_tif"
    /\ pc = "start"
    /\ StlIdle
    /\ SizeIdle
    /\ output_file = OutputArg
    /\ bbox_geometry \in {"None", "Polygon"}
    /\ split_area_in_tiles \in Strings
    /\ compress \in BOOLEAN
    /\ tiles = <<0, 0>>
    /\ progress_bar \in {NoProgressBar, ProgressBar(0)}
    /\ items = -1
    /\ xx = Unbound
    /\ files = <<>>
    /\ disk = {}
    /\ archive = <<>>
    /\ err = ""
    /\ ret = NoReturn

Init == InitStl \/ InitSize \/ InitTif

----------------------------------------------------------------------------
(* convert_bbox_to_tif, src/mapa/__init__.py lines 76-160 *)

(* lines 132-133 *)
RaiseMissingBbox ==
    /\ prog = "convert_bbox_to_tif"
    /\ pc = "start"
    /\ bbox_geometry = "None"
    /\ err' = "ValueError"
    /\ pc' = "raised"
    /\ UNCHANGED <<prog, stlVars, output_file, sizeVars, tifVars, ret>>

(* RaiseInvalidTileFormat with the tile format evaluated before the bbox *)
RaiseInvalidTileFormat_First ==
    /\ prog = "convert_bbox_to_tif"
    /\ pc = "start"
    /\ ~TilesFormatValid(split_area_in_tiles)
    /\ err' = "InvalidTileFormat"
    /\ pc' = "raised"
    /\ UNCHANGED <<prog, stlVars, output_file, sizeVars, tifVars, ret>>

(* line 136, get_x_y_from_tiles_format raising *)
RaiseInvalidTileFormat ==
    /\ prog = "convert_bbox_to_tif"
    /\ pc = "start"
    /\ bbox_geometry # "None"
    /\ ~TilesFormatValid(split_area_in_tiles)
    /\ err' = "InvalidTileFormat"
    /\ pc' = "raised"
    /\ UNCHANGED <<prog, stlVars, output_file, sizeVars, tifVars, ret>>

(* lines 136-144: tiles; wrap the progress bar with its step total *)
EvaluateTileFormat ==
    /\ prog = "convert_bbox_to_tif"
    /\ pc = "start"
    /\ bbox_geometry # "None"
    /\ TilesFormatValid(split_area_in_tiles)
    /\ tiles' = get_x_y_from_tiles_format(split_area_in_tiles)
    /\ progress_bar' =
          IF progress_bar.present
          THEN ProgressBar(IF compress THEN tiles'[1] * tiles'[2] * 2
                                       ELSE tiles'[1] * tiles'[2])
          ELSE progress_bar
    /\ pc' = "search"
    /\ UNCHANGED <<prog, stlVars, output_file, sizeVars, bbox_geometry,
                   split_area_in_tiles, compress, items, xx, files, disk,
                   archive, err, ret>>

(* lines 155-156 *)
StepAfterFetch ==
    /\ prog = "convert_bbox_to_tif"
    /\ pc = "fetched"
    /\ progress_bar' = Step(progress_bar)
    /\ pc' = "result"
    /\ UNCHANGED <<prog, stlVars, output_file, sizeVars, bbox_geometry,
                   split_area_in_tiles, compress, tiles, items, xx, files,
                   disk, archive, err, ret>>

(* lines 157-158 *)
ReturnZipArchive ==
    /\ prog = "convert_bbox_to_tif"
    /\ pc = "result"
    /\ compress
    /\ LET zip == create_zip_archive(files, [output_file EXCEPT !.suffix = ".zip"])
       IN  /\ archive' = Append(archive, zip)
           /\ ret' = [kind |-> "Path", value |-> zip.name]
    /\ pc' = "returned"
    /\ UNCHANGED <<prog, stlVars, output_file, sizeVars, bbox_geometry,
                   split_area_in_tiles, compress, tiles, progress_bar, items,
                   xx, files, disk, err>>

(* ReturnPaths without the single-file case *)
ReturnPaths_AlwaysList ==
    /\ prog = "convert_bbox_to_tif"
    /\ pc = "result"
    /\ ~compress
    /\ ret' = [kind |-> "list", value |-> files]
    /\ pc' = "returned"
    /\ UNCHANGED <<prog, stlVars, output_file, sizeVars, tifVars, err>>

(* lines 159-160 *)
ReturnPaths ==
    /\ prog = "convert_bbox_to_tif"
    /\ pc = "result"
    /\ ~compress
    /\ ret' = IF Len(files) = 1
              THEN [kind |-> "Path", value |-> files[1]]
              ELSE [kind |-> "list", value |-> files]
    /\ pc' = "returned"
    /\ UNCHANGED <<prog, stlVars, output_file, sizeVars, tifVars, err>>

----------------------------------------------------------------------------
(* fetch_stac_items_for_bbox, src/mapa/stac.py lines 99-150 *)

(* lines 103-118: the catalog search returns some number of items *)
SearchCatalog ==
    /\ prog = "convert_bbox_to_tif"
    /\ pc = "search"
    /\ items' \in 0..MaxItems
    /\ pc' = "load"
    /\ UNCHANGED <<prog, stlVars, output_file, sizeVars, bbox_geometry,
                   split_area_in_tiles, compress, tiles, progress_bar, xx,
                   files, disk, archive, err, ret>>

(* lines 121-133: Planetary Computer items; stac_load groups the items by  *)
(* solar day into time slices                                              *)
StacLoad ==
    /\ prog = "convert_bbox_to_tif"
    /\ pc = "load"
    /\ \E slices \in 0..MaxItems :
          /\ IF items = 0 THEN slices = 0 ELSE slices \in 1..items
          /\ xx' = [bound |-> TRUE, slices |-> slices]
    /\ pc' = "count"
    /\ UNCHANGED <<prog, stlVars, output_file, sizeVars, bbox_geometry,
                   split_area_in_tiles, compress, tiles, progress_bar, items,
                   files, disk, archive, err, ret>>

(* line 121 false: the items are not Planetary Computer items, xx is left  *)
(* unbound                                                                 *)
SkipStacLoad ==
    /\ prog = "convert_bbox_to_tif"
    /\ pc = "load"
    /\ pc' = "count"
    /\ UNCHANGED <<prog, stlVars, output_file, sizeVars, tifVars, err, ret>>

(* CountItems taking the save branch for n >= 0 *)
CountItems_NonNegative ==
    /\ prog = "convert_bbox_to_tif"
    /\ pc = "count"
    /\ progress_bar' = IF progress_bar.present
                       THEN [progress_bar EXCEPT !.steps = @ + items]
                       ELSE progress_bar
    /\ pc' = IF items >= 0 THEN "save" ELSE "no_items"
    /\ UNCHANGED <<prog, stlVars, output_file, sizeVars, bbox_geometry,
                   split_area_in_tiles, compress, tiles, items, xx, files,
                   disk, archive, err, ret>>

(* lines 136-139: n = len(items); progress_bar.steps += n *)
CountItems ==
    /\ prog = "convert_bbox_to_tif"
    /\ pc = "count"
    /\ progress_bar' = IF progress_bar.present
                       THEN [progress_bar EXCEPT !.steps = @ + items]
                       ELSE progress_bar
    /\ pc' = IF items > 0 THEN "save" ELSE "no_items"
    /\ UNCHANGED <<prog, stlVars, output_file, sizeVars, bbox_geometry,
                   split_area_in_tiles, compress, tiles, items, xx, files,
                   disk, archive, err, ret>>

(* line 142 with xx bound: save_images_from_xarr, lines 44-72, and         *)
(* save_tifs_with_one_band, lines 74-96: one file per time slice           *)
SaveImagesFromXarr ==
    /\ prog = "convert_bbox_to_tif"
    /\ pc = "save"
    /\ xx.bound
    /\ count = 1
    /\ files' = [t \in 1..xx.slices |-> TifPath(t)]
    /\ disk' = disk \cup { [path |-> TifPath(t), content |-> t] :
                           t \in 1..xx.slices }
    /\ pc' = "saved"
    /\ UNCHANGED <<prog, stlVars, output_file, sizeVars, bbox_geometry,
                   split_area_in_tiles, compress, tiles, progress_bar, items,
                   xx, archive, err, ret>>

(* line 142 with xx unbound: reading the local raises UnboundLocalError *)
RaiseUnboundLocal ==
    /\ prog = "convert_bbox_to_tif"
    /\ pc = "save"
    /\ ~xx.bound
    /\ err' = "UnboundLocalError"
    /\ pc' = "raised"
    /\ UNCHANGED <<prog, stlVars, output_file, sizeVars, tifVars, ret>>

(* lines 145-148: progress_bar.step(); return files *)
ReturnFiles ==
    /\ prog = "convert_bbox_to_tif"
    /\ pc = "saved"
    /\ progress_bar' = Step(progress_bar)
    /\ pc' = "fetched"
    /\ UNCHANGED <<prog, stlVars, output_file, sizeVars, bbox_geometry,
                   split_area_in_tiles, compress, tiles, items, xx, files,
                   disk, archive, err, ret>>

(* lines 149-150 *)
RaiseNoSTACItemFound ==
    /\ prog = "convert_bbox_to_tif"
    /\ pc = "no_items"
    /\ err' = "NoSTACItemFound"
    /\ pc' = "raised"
    /\ UNCHANGED <<prog, stlVars, output_file, sizeVars, tifVars, ret>>

----------------------------------------------------------------------------

Next ==
    \/ TrimBorders
    \/ PerformanceWarning
    \/ ComputeBinFactor
    \/ ReduceResolution
    \/ ComputeTriangles
    \/ SaveToStlFile
    \/ ReturnStlPath
    \/ GetDesiredSize
    \/ RaiseMissingBbox
    \/ RaiseInvalidTileFormat
    \/ EvaluateTileFormat
    \/ SearchCatalog
    \/ StacLoad
    \/ SkipStacLoad
    \/ CountItems
    \/ SaveImagesFromXarr
    \/ RaiseUnboundLocal
    \/ ReturnFiles
    \/ RaiseNoSTACItemFound
    \/ StepAfterFetch
    \/ ReturnZipArchive
    \/ ReturnPaths

Spec == Init /\ [][Next]_vars

----------------------------------------------------------------------------
(* Properties *)

Stl == prog = "convert_array_to_stl"
Tif == prog = "convert_bbox_to_tif"

Rank(fn) ==
    IF fn = "trim" THEN 1
    ELSE IF fn = "reduce" THEN 2
    ELSE IF fn = "triangulate" THEN 3
    ELSE 4

CallsOf(fn) == { i \in 1..Len(calls) : calls[i].fn = fn }

(* C1: the stages of convert_array_to_stl run in the order trimming,       *)
(* reduction, triangulation, serialization; the first stage consumes the   *)
(* caller's array and every later one the result of the stage before it;   *)
(* a finished run has triangulated once and serialized once and returns    *)
(* the serializer's path.                                                  *)
C1_StagesInOrder ==
    Stl =>
      /\ \A i, j \in 1..Len(calls) :
            i < j => Rank(calls[i].fn) < Rank(calls[j].fn)
      /\ Len(calls) >= 1 => calls[1].input = input_array
      /\ \A i \in 1..(Len(calls) - 1) : calls[i + 1].input = calls[i].output
      /\ pc = "returned" =>
            /\ Cardinality(CallsOf("triangulate")) = 1
            /\ Cardinality(CallsOf("serialize")) = 1
            /\ calls[Len(calls)].fn = "serialize"
            /\ ret.kind = "Path"
            /\ ret.value = calls[Len(calls)].output
            /\ ret.value # OutputArg

C1_Witness ==
    /\ Stl
    /\ pc = "returned"
    /\ Len(calls) = 4
    /\ calls[1].input # calls[1].output
    /\ calls[2].input # calls[2].output

(* C2: the bin factor passed to reduce_resolution is                       *)
(* round(avg(rows / MAXIMUM_RESOLUTION, cols / MAXIMUM_RESOLUTION)) of the *)
(* grid passed with it.                                                    *)
C2_BinFactorOfPassedGrid ==
    Stl =>
      \A i \in CallsOf("reduce") :
          calls[i].bin_factor =
              round(Rows(calls[i].input) + Cols(calls[i].input),
                    2 * MAXIMUM_RESOLUTION)

(* C3: reduce_resolution is called exactly when max_res is false and the   *)
(* computed bin factor exceeds 1; otherwise the triangulator receives the  *)
(* trimmed grid.                                                           *)
C3_ReductionIffBinFactor ==
    (Stl /\ pc \in {"serialize", "return", "returned"}) =>
      LET reduced == CallsOf("reduce") # {}
          trimmed == IF Rows(input_array) > 1 /\ Cols(input_array) > 1
                     THEN remove_empty_first_and_last_rows_and_cols(input_array)
                     ELSE input_array
      IN  /\ reduced <=> (~max_res /\ bin_fac > 1)
          /\ max_res => bin_fac = -1
          /\ ~reduced =>
                \A i \in CallsOf("triangulate") : calls[i].input = trimmed

C3_Witness ==
    /\ Stl
    /\ pc = "returned"
    /\ ~max_res
    /\ bin_fac = 0
    /\ CallsOf("reduce") = {}

(* C4: the warning is logged exactly when max_res holds and the grid has   *)
(* more cells than PERFORMANCE_WARNING_THRESHOLD; no run raises, and a run *)
(* ends only by returning a path after triangulation and serialization.    *)
C4_WarningIsAdvisory ==
    Stl =>
      /\ pc \notin {"start", "branch"} =>
            /\ warned \in {0, 1}
            /\ warned = 1 <=>
                 (max_res /\ Rows(input_array) * Cols(input_array)
                               > PERFORMANCE_WARNING_THRESHOLD)
      /\ err = ""
      /\ ~ENABLED Next =>
            /\ pc = "returned"
            /\ ret.kind = "Path"
            /\ CallsOf("triangulate") # {}
            /\ CallsOf("serialize") # {}

C4_Witness ==
    /\ Stl
    /\ pc = "returned"
    /\ warned = 1
    /\ ret.kind = "Path"

C6_FailEarly ==
    (Tif /\ pc # "start") =>
      /\ bbox_geometry = "None" => (pc = "raised" /\ err = "ValueError")
      /\ (bbox_geometry # "None" /\ ~TilesFormatValid(split_area_in_tiles))
            => (pc = "raised" /\ err = "InvalidTileFormat")
      /\ err \in {"ValueError", "InvalidTileFormat"} =>
            /\ items = -1
            /\ disk = {}
            /\ files = <<>>
            /\ archive = <<>>
            /\ progress_bar.current = 0
            /\ progress_bar.steps = 0

C6_Witness ==
    /\ Tif
    /\ bbox_geometry = "None"
    /\ split_area_in_tiles = <<"0", "x", "1">>
    /\ progress_bar.present
    /\ err = "ValueError"

(* C7: a successful call with the tile format "NxM" produces N * M files. *)
C7_OneFilePerTile ==
    (Tif /\ pc = "returned") => Len(files) = tiles[1] * tiles[2]

(* C8: on success, with compress the call returns the archive             *)
(* output_file + ".zip" built from all fetched files; without compress it  *)
(* returns the single path when one file was fetched and the list in fetch *)
(* order otherwise; the list is never empty.                               *)
C8_ReturnValue ==
    (Tif /\ pc = "returned") =>
      /\ files = [t \in 1..xx.slices |-> TifPath(t)]
      /\ files # <<>>
      /\ compress =>
            /\ Len(archive) = 1
            /\ archive[1].files = files
            /\ archive[1].name = [name |-> "output", suffix |-> ".zip"]
            /\ ret.kind = "Path"
            /\ ret.value = archive[1].name
      /\ ~compress =>
            /\ archive = <<>>
            /\ Len(files) = 1 => (ret.kind = "Path" /\ ret.value = files[1])
            /\ Len(files) # 1 => (ret.kind = "list" /\ ret.value = files)

C8_Witness ==
    /\ Tif
    /\ pc = "returned"
    /\ ~compress
    /\ ret.kind = "list"
    /\ Len(ret.value) = 2

(* C9: a search that finds no item ends in NoSTACItemFound and in nothing  *)
(* else, with no file written, no progress-bar step and an unchanged step  *)
(* total; the fetch returns only when an item was found.                   *)
C9_NoItemsRaises ==
    Tif =>
      /\ items = 0 =>
            /\ pc \in {"load", "count", "no_items", "raised"}
            /\ err \in {"", "NoSTACItemFound"}
            /\ pc = "raised" <=> err = "NoSTACItemFound"
            /\ ~ENABLED Next => pc = "raised"
            /\ disk = {}
            /\ files = <<>>
            /\ ret = NoReturn
            /\ progress_bar.current = 0
            /\ progress_bar.present =>
                  progress_bar.steps =
                      IF compress THEN tiles[1] * tiles[2] * 2
                                  ELSE tiles[1] * tiles[2]
      /\ pc \in {"saved", "fetched", "result", "returned"} => items >= 1

C9_Witness ==
    /\ Tif
    /\ items = 0
    /\ xx.bound
    /\ progress_bar.present
    /\ err = "NoSTACItemFound"

(* C10: whenever the save step is reached the dataset has been loaded. *)
C10_LoadedBeforeSave ==
    (Tif /\ pc = "save") => xx.bound

====
